---- MODULE Spec2Model ----
(***************************************************************************)
(* A model of svg_to_pptx: the SVG parser (parser.py) and the slide        *)
(* builder (pptx_builder.py).                                              *)
(*                                                                         *)
(* Python values are modelled as follows.  A str is the sequence of its    *)
(* characters.  An Optional[str] or Optional[float] is a record [none, v]. *)
(* In the path interpreter None is the empty sequence <<>> where the value *)
(* is a tuple, and the string "None" where it is a one-letter command; a   *)
(* float of the path mini-language is an integer (the inputs are integer   *)
(* literals, on which float arithmetic is exact).  Any other float is in   *)
(* fixed point with three decimals.                                        *)
(***************************************************************************)
EXTENDS Integers, Sequences, FiniteSets, TLC

VARIABLES
    tokens,       \* _parse_path: tokens
    i,            \* _parse_path: i (0-based index into tokens)
    command,      \* _parse_path: command ("None" or a letter)
    cursor,       \* _parse_path: cursor
    start_point,  \* _parse_path: start_point (<<>> is None)
    segments,     \* _parse_path: segments
    pstatus,      \* _parse_path: "run" in the loop, "done" returned, "error" raised
    elements,     \* parse_svg: the element tree (element 1 is the root)
    pending,      \* parse_svg: root.iter(), the elements still to come
    shapes,       \* parse_svg: shapes
    result,       \* parse_svg: nothing yet, the Document returned, or the error raised
    document,     \* build_presentation: document
    index,        \* build_presentation: the shapes the for loop has passed
    slide,        \* build_presentation: the shapes on the slide
    prs,          \* build_presentation: prs (slide size, saved or not)
    bstatus       \* build_presentation: "start", "loop", "saved" returned, "error" raised

pathVars == <<tokens, i, command, cursor, start_point, segments, pstatus>>

svgVars == <<elements, pending, shapes, result>>

buildVars == <<document, index, slide, prs, bstatus>>

vars == <<pathVars, svgVars, buildVars>>

-----------------------------------------------------------------------------
(* Bounds                                                                  *)

\* Longest path data, in command groups.
MaxCmds == 4

\* Most elements of a document tree.
MaxNodes == 4

-----------------------------------------------------------------------------
(* Path mini-language: lexemes and tokens                                  *)

\* A lexeme of the path data: a letter or separator (c), or a number (n).
Cmd(c) == [c |-> c, n |-> 0]
Num(n) == [c |-> "", n |-> n]

\* The letters _path_tokens recognises as commands.
CommandLetters == {"M", "m", "L", "l", "H", "h", "V", "v", "Z", "z"}

\* _path_tokens: the regex yields the command letters and the numeric
\* literals; everything else (separators, other letters) is skipped.
IsPathToken(lex) == lex.c = "" \/ lex.c \in CommandLetters

PathTokens(path_data) == SelectSeq(path_data, IsPathToken)

\* re.fullmatch(r"[A-Za-z]", token): every non-numeric token is one letter.
IsLetter(tok) == tok.c # ""

\* _parse_float(token): a numeric literal is its value; a letter matches
\* neither the length pattern nor float(), and gives the default 0.0.
ParseFloatToken(tok) == IF tok.c = "" THEN tok.n ELSE 0

-----------------------------------------------------------------------------
(* Path mini-language: the interpreter, on a record of its locals          *)

PathStart(toks) ==
    [tokens |-> toks, i |-> 0, command |-> "None", cursor |-> <<0, 0>>,
     start_point |-> <<>>, segments |-> <<>>, status |-> "run"]

Token(st) == st.tokens[st.i + 1]

\* i + 1 < len(tokens)
HasNext(st) == st.i + 1 < Len(st.tokens)

NextToken(st) == st.tokens[st.i + 2]

PathSegment(points) == [points |-> points, closed |-> FALSE]

\* command in {"M", "L"}
AbsPoint(st) ==
    << ParseFloatToken(Token(st)),
       IF HasNext(st) THEN ParseFloatToken(NextToken(st)) ELSE 0 >>

RelPointNoCursor(st) ==
    << ParseFloatToken(Token(st)),
       IF HasNext(st) THEN ParseFloatToken(NextToken(st)) ELSE 0 >>

\* command in {"m", "l"}
RelPoint(st) ==
    << st.cursor[1] + ParseFloatToken(Token(st)),
       IF HasNext(st) THEN st.cursor[2] + ParseFloatToken(NextToken(st))
                      ELSE st.cursor[2] >>

\* command in {"H"}, {"h"}, {"V"}, {"v"}
HorizAbsPoint(st) == << ParseFloatToken(Token(st)), st.cursor[2] >>
HorizRelPoint(st) == << st.cursor[1] + ParseFloatToken(Token(st)), st.cursor[2] >>
VertAbsPoint(st) == << st.cursor[1], ParseFloatToken(Token(st)) >>
VertRelPoint(st) == << st.cursor[1], st.cursor[2] + ParseFloatToken(Token(st)) >>

SynthSegmentNoCursor(cur, point) == PathSegment(<<point>>)

\* segments.append(PathSegment(points=[cursor, point]))
SynthSegment(cur, point) == PathSegment(<<cur, point>>)

\* The tail of the loop body: the point goes into a new segment (M, m), a
\* synthesized one (no segment yet) or the last one; the cursor follows.
AppendPoint(st, point, adv) ==
    LET segs == st.segments IN
    IF st.command \in {"M", "m"}
    THEN [st EXCEPT !.i = @ + adv,
                    !.segments = Append(segs, PathSegment(<<point>>)),
                    !.start_point = point,
                    !.command = IF st.command = "M" THEN "L" ELSE "l",
                    !.cursor = point]
    ELSE IF segs = <<>>
    THEN [st EXCEPT !.i = @ + adv,
                    !.segments = <<SynthSegment(st.cursor, point)>>,
                    !.cursor = point]
    ELSE [st EXCEPT !.i = @ + adv,
                    !.segments = [segs EXCEPT ![Len(segs)].points = Append(@, point)],
                    !.cursor = point]

\* A letter token becomes the active command.
ReadCommand(st) == [st EXCEPT !.command = Token(st).c, !.i = @ + 1]

\* command in {"Z", "z"}, reached at a numeric token only.
ClosePath(st) ==
    LET segs == st.segments IN
    [st EXCEPT !.segments = IF segs # <<>> /\ st.start_point # <<>>
                            THEN [segs EXCEPT ![Len(segs)].closed = TRUE]
                            ELSE segs,
               !.i = @ + 1,
               !.cursor = IF st.start_point # <<>> THEN st.start_point ELSE st.cursor,
               !.command = "None"]

\* The branch the loop body takes in state st.
Branch(st) ==
    IF st.status # "run" THEN "stopped"
    ELSE IF ~(st.i < Len(st.tokens)) THEN "return"
    ELSE IF IsLetter(Token(st)) THEN "command"
    ELSE IF st.command = "None" THEN "missing"
    ELSE IF st.command \in {"M", "L"} THEN "abs"
    ELSE IF st.command \in {"m", "l"} THEN "rel"
    ELSE st.command

\* One iteration of the while loop (or the return after it).
PathStep(st) ==
    CASE Branch(st) = "return"  -> [st EXCEPT !.status = "done"]
      [] Branch(st) = "command" -> ReadCommand(st)
      [] Branch(st) = "missing" -> [st EXCEPT !.status = "error"]
      [] Branch(st) = "abs"     -> AppendPoint(st, AbsPoint(st), 2)
      [] Branch(st) = "rel"     -> AppendPoint(st, RelPoint(st), 2)
      [] Branch(st) = "H"       -> AppendPoint(st, HorizAbsPoint(st), 1)
      [] Branch(st) = "h"       -> AppendPoint(st, HorizRelPoint(st), 1)
      [] Branch(st) = "V"       -> AppendPoint(st, VertAbsPoint(st), 1)
      [] Branch(st) = "v"       -> AppendPoint(st, VertRelPoint(st), 1)
      [] Branch(st) \in {"Z", "z"} -> ClosePath(st)
      [] OTHER -> st

RECURSIVE RunPath(_)
RunPath(st) == IF st.status = "run" THEN RunPath(PathStep(st)) ELSE st

\* _parse_path(path_data): the final locals (status "done" or "error").
ParsePath(path_data) == RunPath(PathStart(PathTokens(path_data)))

-----------------------------------------------------------------------------
(* Python str and Optional[str]                                            *)

\* Optional[str]: None, or a str (the sequence of its characters).
None == [none |-> TRUE, v |-> <<>>]
Some(s) == [none |-> FALSE, v |-> s]

Digits == <<"0", "1", "2", "3", "4", "5", "6", "7", "8", "9">>
HexDigits == Digits \o <<"a", "b", "c", "d", "e", "f">>
UpperLetters == <<"A", "B", "C", "D", "E", "F", "G", "H", "I", "J", "K", "L", "M",
                  "N", "O", "P", "Q", "R", "S", "T", "U", "V", "W", "X", "Y", "Z">>
LowerLetters == <<"a", "b", "c", "d", "e", "f", "g", "h", "i", "j", "k", "l", "m",
                  "n", "o", "p", "q", "r", "s", "t", "u", "v", "w", "x", "y", "z">>

Range(s) == {s[k] : k \in 1..Len(s)}
IsDigit(ch) == ch \in Range(Digits)
DigitVal(ch) == (CHOOSE k \in 1..10 : Digits[k] = ch) - 1

\* str.lower() and str.upper(), on the ASCII letters
LowerChar(ch) ==
    IF ch \in Range(UpperLetters)
    THEN LowerLetters[CHOOSE k \in 1..26 : UpperLetters[k] = ch]
    ELSE ch
UpperChar(ch) ==
    IF ch \in Range(LowerLetters)
    THEN UpperLetters[CHOOSE k \in 1..26 : LowerLetters[k] = ch]
    ELSE ch
Lower(s) == [k \in 1..Len(s) |-> LowerChar(s[k])]
Upper(s) == [k \in 1..Len(s) |-> UpperChar(s[k])]

IsSpace(ch) == ch \in {" ", "\t", "\n"}

\* str.strip()
RECURSIVE LStrip(_)
LStrip(s) == IF s # <<>> /\ IsSpace(Head(s)) THEN LStrip(Tail(s)) ELSE s
RECURSIVE RStrip(_)
RStrip(s) ==
    IF s # <<>> /\ IsSpace(s[Len(s)]) THEN RStrip(SubSeq(s, 1, Len(s) - 1)) ELSE s
Strip(s) == RStrip(LStrip(s))

\* str.strip("#")
RECURSIVE StripHash(_)
StripHash(s) ==
    IF s # <<>> /\ Head(s) = "#" THEN StripHash(Tail(s))
    ELSE IF s # <<>> /\ s[Len(s)] = "#" THEN StripHash(SubSeq(s, 1, Len(s) - 1))
    ELSE s

\* str.startswith(p)
StartsWith(s, p) == Len(s) >= Len(p) /\ SubSeq(s, 1, Len(p)) = p

\* The index of the first ch in s, or 0.
IndexOf(s, ch) ==
    IF ch \in Range(s) THEN CHOOSE k \in 1..Len(s) : s[k] = ch /\ \A j \in 1..(k - 1) : s[j] # ch
    ELSE 0

\* str.split(sep), sep one character
RECURSIVE Split(_, _)
Split(s, sep) ==
    LET k == IndexOf(s, sep) IN
    IF k = 0 THEN <<s>>
    ELSE <<SubSeq(s, 1, k - 1)>> \o Split(SubSeq(s, k + 1, Len(s)), sep)

\* The longest prefix of s made of digits.
RECURSIVE DigitPrefix(_)
DigitPrefix(s) ==
    IF s # <<>> /\ IsDigit(Head(s)) THEN <<Head(s)>> \o DigitPrefix(Tail(s)) ELSE <<>>

\* re.findall(r"\d+", s)
RECURSIVE FindDigits(_)
FindDigits(s) ==
    IF s = <<>> THEN <<>>
    ELSE IF IsDigit(Head(s))
    THEN LET run == DigitPrefix(s) IN
         <<run>> \o FindDigits(SubSeq(s, Len(run) + 1, Len(s)))
    ELSE FindDigits(Tail(s))

\* int(v), v a run of digits
RECURSIVE IntOf(_)
IntOf(v) == IF v = <<>> THEN 0 ELSE 10 * IntOf(SubSeq(v, 1, Len(v) - 1)) + DigitVal(v[Len(v)])

\* f"{n:x}" and f"{n:02x}"
RECURSIVE HexOf(_)
HexOf(n) == IF n < 16 THEN <<HexDigits[n + 1]>> ELSE HexOf(n \div 16) \o <<HexDigits[(n % 16) + 1]>>
Hex02(n) == IF n < 16 THEN <<"0">> \o HexOf(n) ELSE HexOf(n)

-----------------------------------------------------------------------------
(* Unit/value normalizer                                                   *)

\* _COLOR_NAMES
ColorNames ==
    { <<<<"b", "l", "a", "c", "k">>, <<"#", "0", "0", "0", "0", "0", "0">>>>,
      <<<<"w", "h", "i", "t", "e">>, <<"#", "f", "f", "f", "f", "f", "f">>>>,
      <<<<"r", "e", "d">>, <<"#", "f", "f", "0", "0", "0", "0">>>>,
      <<<<"g", "r", "e", "e", "n">>, <<"#", "0", "0", "8", "0", "0", "0">>>>,
      <<<<"b", "l", "u", "e">>, <<"#", "0", "0", "0", "0", "f", "f">>>>,
      <<<<"y", "e", "l", "l", "o", "w">>, <<"#", "f", "f", "f", "f", "0", "0">>>>,
      <<<<"c", "y", "a", "n">>, <<"#", "0", "0", "f", "f", "f", "f">>>>,
      <<<<"m", "a", "g", "e", "n", "t", "a">>, <<"#", "f", "f", "0", "0", "f", "f">>>>,
      <<<<"n", "o", "n", "e">>, <<"n", "o", "n", "e">>>> }

\* _COLOR_NAMES.get(key, default)
ColorNamesGet(key, default) ==
    IF \E p \in ColorNames : p[1] = key
    THEN (CHOOSE p \in ColorNames : p[1] = key)[2]
    ELSE default

\* "#" + "".join(f"{int(v):02x}" for v in values)
RgbToHex(values) == <<"#">> \o Hex02(IntOf(values[1])) \o Hex02(IntOf(values[2])) \o Hex02(IntOf(values[3]))

\* _parse_color, from the name lookup on
NormalizedColor(normalized) ==
    IF Lower(normalized) = <<"n", "o", "n", "e">> THEN None
    ELSE IF StartsWith(normalized, <<"#">>) /\ Len(normalized) = 7 THEN Some(Lower(normalized))
    ELSE IF StartsWith(normalized, <<"r", "g", "b">>) /\ Len(FindDigits(normalized)) = 3
    THEN Some(RgbToHex(FindDigits(normalized)))
    ELSE Some(normalized)

\* _parse_color, on the stripped value
StrippedColor(stripped) ==
    IF stripped = <<>> THEN None
    ELSE NormalizedColor(ColorNamesGet(Lower(stripped), stripped))

\* _parse_color
ParseColor(value) == IF value.none THEN None ELSE StrippedColor(Strip(value.v))

\* A Python float of an attribute value, in fixed point with three decimals:
\* FloatUnit is 1.0.
FloatUnit == 1000

Float(n) == n * FloatUnit

RECURSIVE Pow10(_)
Pow10(n) == IF n = 0 THEN 1 ELSE 10 * Pow10(n - 1)

\* The value of the decimal literal with integer digits ip and fraction digits fp
DecimalValue(neg, ip, fp) ==
    IF neg
    THEN 0 - (IntOf(ip) * FloatUnit + (IntOf(fp) * FloatUnit) \div Pow10(Len(fp)))
    ELSE IntOf(ip) * FloatUnit + (IntOf(fp) * FloatUnit) \div Pow10(Len(fp))

\* A decimal literal read from the head of a text: its integer digits ip,
\* whether a point follows them, the fraction digits fp after the point,
\* and the text left after the digits.
LiteralFraction(ip, fp, afterInt) ==
    [ip |-> ip, dot |-> TRUE, fp |-> fp, rest |-> SubSeq(afterInt, Len(fp) + 2, Len(afterInt))]

LiteralTail(ip, afterInt) ==
    IF afterInt # <<>> /\ Head(afterInt) = "."
    THEN LiteralFraction(ip, DigitPrefix(Tail(afterInt)), afterInt)
    ELSE [ip |-> ip, dot |-> FALSE, fp |-> <<>>, rest |-> afterInt]

LiteralFrom(body, ip) == LiteralTail(ip, SubSeq(body, Len(ip) + 1, Len(body)))

Literal(body) == LiteralFrom(body, DigitPrefix(body))

IsUnit(unit) == \A k \in 1..Len(unit) : LowerChar(unit[k]) \in Range(LowerLetters) \cup {"%"}

\* _LENGTH_RE on a literal read: -?\d+(?:\.\d+)?[a-z%]*, ignoring case.  A
\* point that no digit follows belongs to the unit, which then fails.
LengthOfLiteral(neg, lit) ==
    IF lit.ip # <<>> /\ lit.fp # <<>> /\ IsUnit(lit.rest)
    THEN [matched |-> TRUE, number |-> DecimalValue(neg, lit.ip, lit.fp), unit |-> Lower(lit.rest)]
    ELSE IF lit.ip # <<>> /\ ~lit.dot /\ IsUnit(lit.rest)
    THEN [matched |-> TRUE, number |-> DecimalValue(neg, lit.ip, <<>>), unit |-> Lower(lit.rest)]
    ELSE [matched |-> FALSE, number |-> 0, unit |-> <<>>]

\* _LENGTH_RE.fullmatch(value): [matched, number, unit]
LengthMatch(value) ==
    IF value # <<>> /\ Head(value) = "-"
    THEN LengthOfLiteral(TRUE, Literal(Tail(value)))
    ELSE LengthOfLiteral(FALSE, Literal(value))

FloatOfLiteral(neg, lit) ==
    IF (lit.ip # <<>> \/ lit.fp # <<>>) /\ lit.rest = <<>>
    THEN [ok |-> TRUE, v |-> DecimalValue(neg, lit.ip, lit.fp)]
    ELSE [ok |-> FALSE, v |-> 0]

FloatOfStripped(s) ==
    IF s # <<>> /\ Head(s) \in {"-", "+"}
    THEN FloatOfLiteral(Head(s) = "-", Literal(Tail(s)))
    ELSE FloatOfLiteral(FALSE, Literal(s))

\* float(text) on a plain decimal literal: [sign] digits [. [digits]] or
\* [sign] . digits, blanks around it allowed; anything else is a ValueError
\* (ok is FALSE).  Exponents, inf, nan and digit separators are not modelled.
PyFloat(text) == FloatOfStripped(Strip(text))

\* The pixel factor of a unit: its integer part, and its fraction as a
\* numerator and a denominator.
UnitFactor(unit) ==
    CASE unit = <<"p", "t">> -> <<1, 3333, 10000>>
      [] unit = <<"c", "m">> -> <<37, 7953, 10000>>
      [] unit = <<"m", "m">> -> <<3, 77953, 100000>>
      [] unit = <<"i", "n">> -> <<96, 0, 1>>
      [] OTHER -> <<1, 0, 1>>

\* number * factor, truncated to the fixed point
Scaled(number, f) == number * f[1] + (number * f[2]) \div f[3]

\* try: float(value) except ValueError: default
FloatOr(parsed, default) == IF parsed.ok THEN parsed.v ELSE default

\* _parse_float, from the pattern match on
MatchedFloat(m, stripped, default) ==
    IF ~m.matched THEN FloatOr(PyFloat(stripped), default)
    ELSE Scaled(m.number, UnitFactor(m.unit))

\* _parse_float, on the stripped value
StrippedFloat(stripped, default) ==
    IF stripped = <<>> THEN default
    ELSE MatchedFloat(LengthMatch(stripped), stripped, default)

\* _parse_float(value, default), value an Optional[str]
ParseFloat(value, default) ==
    IF value.none THEN default ELSE StrippedFloat(Strip(value.v), default)

-----------------------------------------------------------------------------
(* Elements and the style resolver                                         *)

\* The characters of the attribute and property names.
Chars(name) ==
    CASE name = "fill" -> <<"f", "i", "l", "l">>
      [] name = "stroke" -> <<"s", "t", "r", "o", "k", "e">>
      [] name = "stroke-width" -> <<"s", "t", "r", "o", "k", "e", "-", "w", "i", "d", "t", "h">>
      [] name = "opacity" -> <<"o", "p", "a", "c", "i", "t", "y">>
      [] name = "font-family" -> <<"f", "o", "n", "t", "-", "f", "a", "m", "i", "l", "y">>
      [] name = "font-size" -> <<"f", "o", "n", "t", "-", "s", "i", "z", "e">>

\* dict.get(key) and dict[key] = value, a dict being a function on its keys
DictGet(d, key) == IF key \in DOMAIN d THEN Some(d[key]) ELSE None
DictSet(d, key, value) == [x \in (DOMAIN d) \cup {key} |-> IF x = key THEN value ELSE d[x]]

\* element.get(key, default), default an Optional[str]
Get(element, key, default) ==
    IF key \in DOMAIN element.attrib THEN Some(element.attrib[key]) ELSE default

\* key, value = decl.split(":", 1); style[key.strip()] = value.strip()
SetDeclaration(style, decl, k) ==
    DictSet(style, Strip(SubSeq(decl, 1, k - 1)), Strip(SubSeq(decl, k + 1, Len(decl))))

\* The loop of _merge_style over the declarations
RECURSIVE MergeDeclarations(_, _)
MergeDeclarations(declarations, style) ==
    IF declarations = <<>> THEN style
    ELSE IF IndexOf(Head(declarations), ":") = 0
    THEN MergeDeclarations(Tail(declarations), style)
    ELSE MergeDeclarations(Tail(declarations),
             SetDeclaration(style, Head(declarations), IndexOf(Head(declarations), ":")))

\* _merge_style
MergeStyle(element) ==
    IF "style" \in DOMAIN element.attrib
    THEN MergeDeclarations(Split(element.attrib["style"], ";"), <<>>)
    ELSE <<>>

\* Style(): stroke_width 1.0, opacity 1.0, no paint
Style(fill_color, stroke_color, stroke_width, opacity) ==
    [fill_color |-> fill_color, stroke_color |-> stroke_color,
     stroke_width |-> stroke_width, opacity |-> opacity]

DefaultStyle == Style(None, None, Float(1), Float(1))

\* A call that returns value, and a call that raises.
Return(value) == [raised |-> FALSE, msg |-> "", value |-> value]
Raise(msg) == [raised |-> TRUE, msg |-> msg, value |-> <<>>]

LookupStyleFirst(element, inline, name) ==
    IF Chars(name) \in DOMAIN inline
    THEN DictGet(inline, Chars(name))
    ELSE Get(element, name, None)

\* element.get(name, inline.get(name))
Lookup(element, inline, name) == Get(element, name, DictGet(inline, Chars(name)))

\* float(opacity) if opacity is not None else base_style.opacity
Opacity(opacity, base_style) ==
    IF ~opacity.none THEN PyFloat(opacity.v) ELSE [ok |-> TRUE, v |-> base_style.opacity]

\* Style(...) of the values looked up; float(opacity) raises on a text that
\* is no number.
ResolvedStyle(fill, stroke, stroke_width, opacity, base_style) ==
    IF ~opacity.ok
    THEN Raise("could not convert string to float")
    ELSE Return(Style(ParseColor(fill), ParseColor(stroke),
                      ParseFloat(stroke_width, base_style.stroke_width), opacity.v))

InlineStyle(element, inline, base_style) ==
    ResolvedStyle(Lookup(element, inline, "fill"), Lookup(element, inline, "stroke"),
                  Lookup(element, inline, "stroke-width"),
                  Opacity(Lookup(element, inline, "opacity"), base_style), base_style)

\* _extract_style(element, base_style): base_style a Style (Style() when the
\* caller passes none)
ExtractStyle(element, base_style) == InlineStyle(element, MergeStyle(element), base_style)

\* Optional[float]
NoFloat == [none |-> TRUE, v |-> 0]
SomeFloat(x) == [none |-> FALSE, v |-> x]

\* _parse_float(font_size) if font_size else None
FontSize(font_size) ==
    IF ~font_size.none /\ font_size.v # <<>>
    THEN SomeFloat(ParseFloat(font_size, 0))
    ELSE NoFloat

\* TextStyle(...): the Style with the two font fields
TextStyle(base, font_family, font_size) ==
    IF base.raised THEN base
    ELSE Return([fill_color |-> base.value.fill_color,
                 stroke_color |-> base.value.stroke_color,
                 stroke_width |-> base.value.stroke_width,
                 opacity |-> base.value.opacity,
                 font_family |-> font_family,
                 font_size |-> FontSize(font_size)])

InlineTextStyle(element, inline) ==
    TextStyle(ExtractStyle(element, DefaultStyle),
              Lookup(element, inline, "font-family"), Lookup(element, inline, "font-size"))

\* _extract_text_style
ExtractTextStyle(element) == InlineTextStyle(element, MergeStyle(element))

-----------------------------------------------------------------------------
(* Shape extractors                                                        *)

\* _parse_float(element.get(name)), default 0.0
Length(element, name) == ParseFloat(Get(element, name, None), 0)

\* The value of a lexeme-valued attribute (points, d), "" when absent.
Data(element, name) ==
    IF name \in DOMAIN element.attrib THEN element.attrib[name] ELSE <<>>

\* re.findall of the pair pattern number,number: the pairs, left to right
RECURSIVE FindPairs(_)
FindPairs(lex) ==
    IF Len(lex) < 3 THEN <<>>
    ELSE IF lex[1].c = "" /\ lex[2].c = "," /\ lex[3].c = ""
    THEN <<<<lex[1].n, lex[3].n>>>> \o FindPairs(SubSeq(lex, 4, Len(lex)))
    ELSE FindPairs(Tail(lex))

\* The fallback of _parse_points: the numbers two by two, an odd last one dropped
RECURSIVE PairUp(_)
PairUp(numbers) ==
    IF Len(numbers) < 2 THEN <<>>
    ELSE <<<<numbers[1].n, numbers[2].n>>>> \o PairUp(SubSeq(numbers, 3, Len(numbers)))

IsNumber(lex) == lex.c = ""

PairsOrNumbers(pairs, points_str) ==
    IF pairs # <<>> THEN pairs ELSE PairUp(SelectSeq(points_str, IsNumber))

\* _parse_points
ParsePoints(points_str) == PairsOrNumbers(FindPairs(points_str), points_str)

\* " ".join(pieces), pieces the stripped non-empty text nodes
RECURSIVE JoinWords(_)
JoinWords(pieces) ==
    IF pieces = <<>> THEN <<>>
    ELSE IF Len(pieces) = 1 THEN Head(pieces)
    ELSE Head(pieces) \o <<" ">> \o JoinWords(Tail(pieces))

NonBlank(t) == Strip(t) # <<>>

\* " ".join(t.strip() for t in element.itertext() if t.strip())
JoinText(texts) ==
    JoinWords([k \in 1..Len(SelectSeq(texts, NonBlank)) |-> Strip(SelectSeq(texts, NonBlank)[k])])

\* Rect(...)
Rect(style, element) ==
    IF style.raised THEN style
    ELSE Return([shape_type |-> "rect", style |-> style.value,
                 x |-> Length(element, "x"), y |-> Length(element, "y"),
                 width |-> Length(element, "width"), height |-> Length(element, "height"),
                 rx |-> Length(element, "rx"), ry |-> Length(element, "ry")])

\* _parse_rect
ParseRect(element) == Rect(ExtractStyle(element, DefaultStyle), element)

\* Circle(...)
Circle(style, element) ==
    IF style.raised THEN style
    ELSE Return([shape_type |-> "circle", style |-> style.value,
                 cx |-> Length(element, "cx"), cy |-> Length(element, "cy"),
                 r |-> Length(element, "r")])

\* _parse_circle
ParseCircle(element) == Circle(ExtractStyle(element, DefaultStyle), element)

\* Ellipse(...)
Ellipse(style, element) ==
    IF style.raised THEN style
    ELSE Return([shape_type |-> "ellipse", style |-> style.value,
                 cx |-> Length(element, "cx"), cy |-> Length(element, "cy"),
                 rx |-> Length(element, "rx"), ry |-> Length(element, "ry")])

\* _parse_ellipse
ParseEllipse(element) == Ellipse(ExtractStyle(element, DefaultStyle), element)

\* Line(...)
Line(style, element) ==
    IF style.raised THEN style
    ELSE Return([shape_type |-> "line", style |-> style.value,
                 x1 |-> Length(element, "x1"), y1 |-> Length(element, "y1"),
                 x2 |-> Length(element, "x2"), y2 |-> Length(element, "y2")])

\* _parse_line
ParseLine(element) == Line(ExtractStyle(element, DefaultStyle), element)

\* Polyline(...)
Polyline(style, element, closed) ==
    IF style.raised THEN style
    ELSE Return([shape_type |-> IF closed THEN "polygon" ELSE "polyline",
                 style |-> style.value,
                 points |-> ParsePoints(Data(element, "points")),
                 closed |-> closed])

\* _parse_polyline
ParsePolyline(element, closed) == Polyline(ExtractStyle(element, DefaultStyle), element, closed)

\* Path(...); _parse_path raises on a data token that has no command
PathShape(style, parsed) ==
    IF style.raised THEN style
    ELSE IF parsed.status = "error" THEN Raise("Path data missing command")
    ELSE Return([shape_type |-> "path", style |-> style.value,
                 segments |-> parsed.segments])

\* _parse_path_element
ParsePathElement(element) ==
    PathShape(ExtractStyle(element, DefaultStyle), ParsePath(Data(element, "d")))

\* Text(...)
Text(text_style, element) ==
    IF text_style.raised THEN text_style
    ELSE Return([shape_type |-> "text", style |-> text_style.value,
                 text |-> JoinText(element.itertext),
                 x |-> Length(element, "x"), y |-> Length(element, "y")])

\* _parse_text
ParseText(element) == Text(ExtractTextStyle(element), element)

\* The keys of _SHAPE_PARSERS, and their characters
ShapeTags == {"rect", "circle", "ellipse", "line", "polyline", "polygon", "path", "text"}

TagChars(name) ==
    CASE name = "rect" -> <<"r", "e", "c", "t">>
      [] name = "circle" -> <<"c", "i", "r", "c", "l", "e">>
      [] name = "ellipse" -> <<"e", "l", "l", "i", "p", "s", "e">>
      [] name = "line" -> <<"l", "i", "n", "e">>
      [] name = "polyline" -> <<"p", "o", "l", "y", "l", "i", "n", "e">>
      [] name = "polygon" -> <<"p", "o", "l", "y", "g", "o", "n">>
      [] name = "path" -> <<"p", "a", "t", "h">>
      [] name = "text" -> <<"t", "e", "x", "t">>

\* tag in _SHAPE_PARSERS
InShapeParsers(tag) == \E name \in ShapeTags : TagChars(name) = tag

\* _SHAPE_PARSERS[tag](element)
ShapeParser(tag, element) ==
    CASE tag = TagChars("rect") -> ParseRect(element)
      [] tag = TagChars("circle") -> ParseCircle(element)
      [] tag = TagChars("ellipse") -> ParseEllipse(element)
      [] tag = TagChars("line") -> ParseLine(element)
      [] tag = TagChars("polyline") -> ParsePolyline(element, FALSE)
      [] tag = TagChars("polygon") -> ParsePolyline(element, TRUE)
      [] tag = TagChars("path") -> ParsePathElement(element)
      [] tag = TagChars("text") -> ParseText(element)

-----------------------------------------------------------------------------
(* Document assembler: parse_svg                                           *)

LastOf(parts) == parts[Len(parts)]

\* element.tag.split("}")[-1]
LocalTag(element) == LastOf(Split(element.tag, "}"))

\* root.iter(), as the stack of the elements still to come: the element on
\* top is yielded and replaced by its children, first child on top.
IterBreadthFirst(tree, stack) == Tail(stack) \o tree[Head(stack)].children

IterAdvance(tree, stack) == tree[Head(stack)].children \o Tail(stack)

\* _parse_float(root.get(name)) if root.get(name) else None
CanvasSize(root, name) ==
    IF name \in DOMAIN root.attrib /\ root.attrib[name] # <<>>
    THEN SomeFloat(ParseFloat(Some(root.attrib[name]), 0))
    ELSE NoFloat

\* The try block of the loop body: a shape is appended, or the extractor's
\* exception is re-raised naming the tag.
SkipFailedElement(tag, parsed, shapes_) ==
    IF parsed.raised
    THEN [raised |-> FALSE, tag |-> tag, msg |-> "", shapes |-> shapes_]
    ELSE [raised |-> FALSE, tag |-> tag, msg |-> "", shapes |-> Append(shapes_, parsed.value)]

TryParse(tag, parsed, shapes_) ==
    IF parsed.raised
    THEN [raised |-> TRUE, tag |-> tag, msg |-> parsed.msg, shapes |-> shapes_]
    ELSE [raised |-> FALSE, tag |-> tag, msg |-> "", shapes |-> Append(shapes_, parsed.value)]

\* The outcome of the loop body on a shape element.
VisitElement(tag, element) == TryParse(tag, ShapeParser(tag, element), shapes)

Visit == VisitElement(LocalTag(elements[Head(pending)]), elements[Head(pending)])

NoResult == [kind |-> "none", tag |-> <<>>, msg |-> "", width |-> NoFloat,
             height |-> NoFloat, shapes |-> <<>>]

\* Document(width=width, height=height, shapes=shapes)
Document(width, height, shapes_) ==
    [kind |-> "document", tag |-> <<>>, msg |-> "", width |-> width,
     height |-> height, shapes |-> shapes_]

\* ValueError(f"Unable to parse element '{tag}': {exc}")
UnableToParse(tag, msg) ==
    [kind |-> "error", tag |-> tag, msg |-> msg, width |-> NoFloat,
     height |-> NoFloat, shapes |-> <<>>]

Looping == result.kind = "none" /\ pending # <<>>

AtShape == Looping /\ InShapeParsers(LocalTag(elements[Head(pending)]))

\* The element is no shape: the loop goes on.
VisitOther ==
    /\ Looping
    /\ ~InShapeParsers(LocalTag(elements[Head(pending)]))
    /\ pending' = IterAdvance(elements, pending)
    /\ UNCHANGED <<elements, shapes, result>>
    /\ UNCHANGED <<pathVars, buildVars>>

AppendShape(visit) ==
    /\ ~visit.raised
    /\ shapes' = visit.shapes
    /\ pending' = IterAdvance(elements, pending)
    /\ UNCHANGED <<elements, result>>
    /\ UNCHANGED <<pathVars, buildVars>>

\* The element is a shape and its extractor returns: the shape is appended.
VisitShape == AtShape /\ AppendShape(Visit)

RaiseUnableToParse(visit) ==
    /\ visit.raised
    /\ result' = UnableToParse(visit.tag, visit.msg)
    /\ UNCHANGED <<elements, pending, shapes>>
    /\ UNCHANGED <<pathVars, buildVars>>

\* The element is a shape and its extractor raises: parse_svg raises.
VisitFail == AtShape /\ RaiseUnableToParse(Visit)

\* The iterator is exhausted: the Document is returned.
ReturnDocument ==
    /\ result.kind = "none"
    /\ pending = <<>>
    /\ result' = Document(CanvasSize(elements[1], "width"),
                          CanvasSize(elements[1], "height"), shapes)
    /\ UNCHANGED <<elements, pending, shapes>>
    /\ UNCHANGED <<pathVars, buildVars>>

-----------------------------------------------------------------------------
(* Slide builder: pptx_builder.py                                          *)
(*                                                                         *)
(* Every float of a Document is in fixed point here (FloatUnit is 1.0),    *)
(* the coordinates of points included; lengths on the slide are whole EMU. *)

\* PX_TO_EMU
PX_TO_EMU == 9525

\* int(a / b): the quotient truncated toward zero
IntQuotient(a, b) == IF a >= 0 THEN a \div b ELSE 0 - ((0 - a) \div b)

\* px_to_emu
px_to_emu(value) == IntQuotient(value * PX_TO_EMU, FloatUnit)

\* Pt(points): 12700 EMU to the point
Pt(points) == IntQuotient(points * 12700, FloatUnit)

\* Truth of an Optional[str] and of an Optional[float]
Truthy(opt) == ~opt.none /\ opt.v # <<>>
TruthyFloat(opt) == ~opt.none /\ opt.v # 0

IsHexChar(ch) == LowerChar(ch) \in Range(HexDigits)
HexVal(ch) == (CHOOSE k \in 1..16 : HexDigits[k] = LowerChar(ch)) - 1

\* The value is exact up to 4095 and 4096 for all above, which is as
\* good where it is only compared with 255.
RECURSIVE HexValue(_)
HexValue(s) ==
    IF s = <<>> THEN 0
    ELSE IF HexValue(SubSeq(s, 1, Len(s) - 1)) >= 256 THEN 4096
    ELSE 16 * HexValue(SubSeq(s, 1, Len(s) - 1)) + HexVal(s[Len(s)])

\* int(s, 16) on a run of hex digits, [ok, v]: ok is FALSE where int raises
\* (the empty string, a character that is no hex digit).  Signs, blanks,
\* an 0x prefix and digit separators are not modelled.
IntBase16(s) ==
    IF s # <<>> /\ \A k \in 1..Len(s) : IsHexChar(s[k])
    THEN [ok |-> TRUE, v |-> HexValue(s)]
    ELSE [ok |-> FALSE, v |-> 0]

\* RGBColor(r, g, b): each of the three in 0..255, else ValueError
RGBColor(r, g, b) ==
    IF r.ok /\ g.ok /\ b.ok /\ b.v <= 255
    THEN [ok |-> TRUE, v |-> <<r.v, g.v, b.v>>]
    ELSE [ok |-> FALSE, v |-> <<>>]

\* RGBColor.from_string(s): int(s[:2], 16), int(s[2:4], 16), int(s[4:], 16)
RGBColorFromString(s) ==
    RGBColor(IntBase16(SubSeq(s, 1, IF Len(s) < 2 THEN Len(s) ELSE 2)),
             IntBase16(SubSeq(s, 3, IF Len(s) < 4 THEN Len(s) ELSE 4)),
             IntBase16(SubSeq(s, 5, Len(s))))

\* The fill and the line of a shape on the slide: untouched, background (no
\* paint), or solid with a colour (and, for a line, a width in EMU).
Untouched == [kind |-> "untouched", rgb |-> <<>>, width |-> 0]
Background == [kind |-> "background", rgb |-> <<>>, width |-> 0]
Solid(rgb, width) == [kind |-> "solid", rgb |-> rgb, width |-> width]

\* A call on a shape that returns, and one that raises, with the shape as
\* the call left it.
Done(shape) == [raised |-> FALSE, shape |-> shape]
Failed(shape) == [raised |-> TRUE, shape |-> shape]

\* shape.fill.solid(); shape.fill.fore_color.rgb = RGBColor.from_string(...)
SolidFill(shape, rgb) ==
    IF rgb.ok THEN Done([shape EXCEPT !.fill = Solid(rgb.v, 0)])
    ELSE Failed([shape EXCEPT !.fill = Solid(<<>>, 0)])

\* _set_fill
SetFill(shape, style) ==
    IF Truthy(style.fill_color)
    THEN SolidFill(shape, RGBColorFromString(Upper(StripHash(style.fill_color.v))))
    ELSE Done([shape EXCEPT !.fill = Background])

\* line.color.rgb = RGBColor.from_string(...); line.width = px_to_emu(width)
SolidLine(shape, rgb, width) ==
    IF rgb.ok THEN Done([shape EXCEPT !.line = Solid(rgb.v, px_to_emu(width))])
    ELSE Failed(shape)

\* _set_line
SetLine(shape, style) ==
    IF Truthy(style.stroke_color)
    THEN SolidLine(shape, RGBColorFromString(Upper(StripHash(style.stroke_color.v))),
                   style.stroke_width)
    ELSE Done([shape EXCEPT !.line = Background])

\* _set_line after _set_fill, which may have raised
ThenSetLine(filled, style) ==
    IF filled.raised THEN filled ELSE SetLine(filled.shape, style)

\* _apply_style
ApplyStyle(shape, style) == ThenSetLine(SetFill(shape, style), style)

\* slide.shapes.add_shape(auto_shape_type, left, top, width, height)
AutoShape(auto_shape_type, left, top, width, height) ==
    [kind |-> "autoshape", auto_shape_type |-> auto_shape_type,
     left |-> left, top |-> top, width |-> width, height |-> height,
     fill |-> Untouched, line |-> Untouched]

\* A call of an _add_ function: the slide as it leaves it, and whether it raised.
Placed(slide_, styled) == [raised |-> styled.raised, slide |-> Append(slide_, styled.shape)]
Omitted(slide_) == [raised |-> FALSE, slide |-> slide_]

\* _add_rect
AddRect(slide_, rect) ==
    Placed(slide_,
           ApplyStyle(AutoShape(IF rect.rx # 0 \/ rect.ry # 0
                                THEN "ROUNDED_RECTANGLE" ELSE "RECTANGLE",
                                px_to_emu(rect.x), px_to_emu(rect.y),
                                px_to_emu(rect.width), px_to_emu(rect.height)),
                      rect.style))

\* _add_circle
AddCircle(slide_, circle) ==
    Placed(slide_,
           ApplyStyle(AutoShape("OVAL",
                                px_to_emu(circle.cx - circle.r), px_to_emu(circle.cy - circle.r),
                                px_to_emu(circle.r * 2), px_to_emu(circle.r * 2)),
                      circle.style))

\* _add_ellipse
AddEllipse(slide_, ellipse) ==
    Placed(slide_,
           ApplyStyle(AutoShape("OVAL",
                                px_to_emu(ellipse.cx - ellipse.rx), px_to_emu(ellipse.cy - ellipse.ry),
                                px_to_emu(ellipse.rx * 2), px_to_emu(ellipse.ry * 2)),
                      ellipse.style))

Min(a, b) == IF a <= b THEN a ELSE b
Abs(a) == IF a >= 0 THEN a ELSE 0 - a

\* _add_line
AddLine(slide_, line) ==
    Placed(slide_,
           ApplyStyle(AutoShape("LINE",
                                px_to_emu(Min(line.x1, line.x2)), px_to_emu(Min(line.y1, line.y2)),
                                px_to_emu(Abs(line.x2 - line.x1)), px_to_emu(Abs(line.y2 - line.y1))),
                      line.style))

EmuPoint(point) == <<px_to_emu(point[1]), px_to_emu(point[2])>>

\* builder.convert_to_shape(): the pen start and the line segments added
Freeform(start, line_segments) ==
    [kind |-> "freeform", start |-> start, line_segments |-> line_segments,
     fill |-> Untouched, line |-> Untouched]

\* _build_freeform, [none, shape]: none is TRUE where it returns None
BuildFreeform(points, closed) ==
    IF Len(points) < 2 THEN [none |-> TRUE, shape |-> <<>>]
    ELSE [none |-> FALSE,
          shape |-> Freeform(EmuPoint(points[1]),
                             [k \in 1..(Len(points) - 1) |-> EmuPoint(points[k + 1])]
                                 \o (IF closed THEN <<EmuPoint(points[1])>> ELSE <<>>))]

\* if shape: _apply_style(shape, style)
StyledFreeform(slide_, freeform, style) ==
    IF freeform.none THEN Omitted(slide_)
    ELSE Placed(slide_, ApplyStyle(freeform.shape, style))

\* _add_polyline
AddPolyline(slide_, poly) ==
    StyledFreeform(slide_, BuildFreeform(poly.points, poly.closed), poly.style)

\* The loop of _add_path from segment k on; a raise ends it.
RECURSIVE AddSegments(_, _, _)
AddSegments(added, path, k) ==
    IF added.raised \/ k > Len(path.segments) THEN added
    ELSE AddSegments(StyledFreeform(added.slide,
                                    BuildFreeform(path.segments[k].points, path.segments[k].closed),
                                    path.style),
                     path, k + 1)

\* _add_path
AddPath(slide_, path) == AddSegments(Omitted(slide_), path, 1)

\* isinstance(style, TextStyle)
IsTextStyle(style) == "font_size" \in DOMAIN style

\* slide.shapes.add_textbox(left, top, width, height), with the run's text
Textbox(left, top, width, height, text) ==
    [kind |-> "textbox", left |-> left, top |-> top, width |-> width, height |-> height,
     text |-> text, font_color |-> <<>>, font_size |-> NoFloat, font_name |-> None,
     fill |-> Untouched, line |-> Untouched]

\* run.font.size and run.font.name, set where the style is a TextStyle
\* that has them
WithFont(textbox, style) ==
    [textbox EXCEPT
        !.font_size = IF IsTextStyle(style) /\ TruthyFloat(style.font_size)
                      THEN SomeFloat(Pt((style.font_size.v * 3) \div 4)) ELSE @,
        !.font_name = IF IsTextStyle(style) /\ Truthy(style.font_family)
                      THEN style.font_family ELSE @]

\* run.font.color.rgb = RGBColor.from_string(...)
FontColor(textbox, rgb, style) ==
    IF rgb.ok THEN Done(WithFont([textbox EXCEPT !.font_color = rgb.v], style))
    ELSE Failed(textbox)

Run(textbox, style) ==
    IF Truthy(style.fill_color)
    THEN FontColor(textbox, RGBColorFromString(Upper(StripHash(style.fill_color.v))), style)
    ELSE Done(WithFont(textbox, style))

\* _add_text
AddText(slide_, text) ==
    Placed(slide_,
           Run(Textbox(px_to_emu(text.x), px_to_emu(text.y),
                       px_to_emu(Float(200)), px_to_emu(Float(80)), text.text),
               text.style))

\* prs.slide_width = px_to_emu(document.width), if document.width
SlideSize(size) == IF TruthyFloat(size) THEN SomeFloat(px_to_emu(size.v)) ELSE NoFloat

\* Presentation() with its blank slide, and the slide size set
BuildStart ==
    /\ bstatus = "start"
    /\ prs' = [slide_width |-> SlideSize(document.width),
               slide_height |-> SlideSize(document.height), saved |-> FALSE]
    /\ slide' = <<>>
    /\ index' = 0
    /\ bstatus' = "loop"
    /\ UNCHANGED document
    /\ UNCHANGED <<pathVars, svgVars>>

\* The shape the loop is at has this type.
AtShapeType(types) ==
    /\ bstatus = "loop"
    /\ index < Len(document.shapes)
    /\ document.shapes[index + 1].shape_type \in types

\* The _add_ call returns and the loop goes on, or raises and
\* build_presentation raises.
Added(added) ==
    /\ slide' = added.slide
    /\ IF added.raised
       THEN bstatus' = "error" /\ index' = index
       ELSE bstatus' = "loop" /\ index' = index + 1
    /\ UNCHANGED <<document, prs>>
    /\ UNCHANGED <<pathVars, svgVars>>

BuildRect == AtShapeType({"rect"}) /\ Added(AddRect(slide, document.shapes[index + 1]))
BuildCircle == AtShapeType({"circle"}) /\ Added(AddCircle(slide, document.shapes[index + 1]))
BuildEllipse == AtShapeType({"ellipse"}) /\ Added(AddEllipse(slide, document.shapes[index + 1]))
BuildLine == AtShapeType({"line"}) /\ Added(AddLine(slide, document.shapes[index + 1]))
BuildPolyline ==
    AtShapeType({"polyline", "polygon"}) /\ Added(AddPolyline(slide, document.shapes[index + 1]))
BuildPath == AtShapeType({"path"}) /\ Added(AddPath(slide, document.shapes[index + 1]))
BuildText == AtShapeType({"text"}) /\ Added(AddText(slide, document.shapes[index + 1]))

\* prs.save(output_path); return output_path
BuildSave ==
    /\ bstatus = "loop"
    /\ index = Len(document.shapes)
    /\ prs' = [prs EXCEPT !.saved = TRUE]
    /\ bstatus' = "saved"
    /\ UNCHANGED <<document, index, slide>>
    /\ UNCHANGED <<pathVars, svgVars>>

-----------------------------------------------------------------------------
(* The parts at rest: each specification runs one part of the program      *)

IdlePath ==
    /\ tokens = <<>>
    /\ i = 0
    /\ command = "None"
    /\ cursor = <<0, 0>>
    /\ start_point = <<>>
    /\ segments = <<>>
    /\ pstatus = "idle"

IdleSvg ==
    /\ elements = <<>>
    /\ pending = <<>>
    /\ shapes = <<>>
    /\ result = [NoResult EXCEPT !.kind = "idle"]

IdleBuild ==
    /\ document = Document(NoFloat, NoFloat, <<>>)
    /\ index = 0
    /\ slide = <<>>
    /\ prs = [slide_width |-> NoFloat, slide_height |-> NoFloat, saved |-> FALSE]
    /\ bstatus = "idle"

-----------------------------------------------------------------------------
(* Path mini-language: the interpreter as a state machine                  *)

PathState ==
    [tokens |-> tokens, i |-> i, command |-> command, cursor |-> cursor,
     start_point |-> start_point, segments |-> segments, status |-> pstatus]

SetPath(st) ==
    /\ tokens' = st.tokens
    /\ i' = st.i
    /\ command' = st.command
    /\ cursor' = st.cursor
    /\ start_point' = st.start_point
    /\ segments' = st.segments
    /\ pstatus' = st.status
    /\ UNCHANGED <<svgVars, buildVars>>

\* Path data of the model: command groups, written with their separators.
PathGroups ==
    { <<Cmd("M"), Num(1), Cmd(","), Num(2)>>,
      <<Cmd("m"), Num(3), Cmd(","), Num(1)>>,
      <<Cmd("L"), Num(5), Cmd(","), Num(7)>>,
      <<Cmd("l"), Num(2), Cmd(","), Num(3)>>,
      <<Cmd("H"), Num(9)>>,
      <<Cmd("h"), Num(4)>>,
      <<Cmd("V"), Num(8)>>,
      <<Cmd("v"), Num(6)>>,
      <<Cmd("Z")>>,
      <<Cmd("z")>>,
      <<Cmd("Z"), Num(5)>>,
      <<Num(5)>> }

RECURSIVE Flatten(_)
Flatten(groups) ==
    IF groups = <<>> THEN <<>> ELSE Head(groups) \o Flatten(Tail(groups))

PathInputs ==
    { Flatten(gs) : gs \in UNION { [1..n -> PathGroups] : n \in 0..MaxCmds } }

InitPath ==
    \E path_data \in PathInputs :
        /\ tokens = PathTokens(path_data)
        /\ i = 0
        /\ command = "None"
        /\ cursor = <<0, 0>>
        /\ start_point = <<>>
        /\ segments = <<>>
        /\ pstatus = "run"
        /\ IdleSvg
        /\ IdleBuild

StepCommand == Branch(PathState) = "command" /\ SetPath(PathStep(PathState))
StepMissing == Branch(PathState) = "missing" /\ SetPath(PathStep(PathState))
StepAbs     == Branch(PathState) = "abs" /\ SetPath(PathStep(PathState))
StepRel     == Branch(PathState) = "rel" /\ SetPath(PathStep(PathState))
StepH       == Branch(PathState) = "H" /\ SetPath(PathStep(PathState))
Steph       == Branch(PathState) = "h" /\ SetPath(PathStep(PathState))
StepV       == Branch(PathState) = "V" /\ SetPath(PathStep(PathState))
Stepv       == Branch(PathState) = "v" /\ SetPath(PathStep(PathState))
StepClose   == Branch(PathState) \in {"Z", "z"} /\ SetPath(PathStep(PathState))
StepReturn  == Branch(PathState) = "return" /\ SetPath(PathStep(PathState))

NextPath ==
    \/ StepCommand
    \/ StepMissing
    \/ StepAbs
    \/ StepRel
    \/ StepH
    \/ Steph
    \/ StepV
    \/ Stepv
    \/ StepClose
    \/ StepReturn

SpecPath == InitPath /\ [][NextPath]_vars

-----------------------------------------------------------------------------
(* parse_svg as a state machine                                            *)

\* An element: its tag, attributes and text nodes (its children come with the tree).
Element(tag, attrib, itertext) ==
    [tag |-> tag, attrib |-> attrib, itertext |-> itertext, children |-> <<>>]

\* The attributes that are present, from an Optional value for each name.
Attrib(opts) == [k \in {x \in DOMAIN opts : ~opts[x].none} |-> opts[k].v]

NoAttrib == Attrib("fill" :> None)

\* A namespaced svg container with a canvas size.
SvgRoot ==
    Element(<<"{", "s", "}">> \o <<"s", "v", "g">>,
            Attrib(("width" :> Some(<<"1", "0", "0">>)) @@ ("height" :> Some(<<"2", "c", "m">>))), <<>>)

\* The elements of the model's trees: the container, three shapes that
\* parse, and one that does not.
TreeElements ==
    { SvgRoot,
      Element(<<"r", "e", "c", "t">>, Attrib("fill" :> Some(<<"r", "e", "d">>)), <<>>),
      Element(<<"{", "s", "}">> \o <<"c", "i", "r", "c", "l", "e">>, NoAttrib, <<>>),
      Element(<<"p", "a", "t", "h">>, Attrib("d" :> Some(<<Cmd("M"), Num(1), Cmd(","), Num(2), Cmd("L"), Num(5), Cmd(","), Num(7)>>)), <<>>),
      Element(<<"p", "a", "t", "h">>, Attrib("d" :> Some(<<Num(5), Cmd(","), Num(5)>>)), <<>>) }

\* The shape tags, each with attributes that give it a geometry.
ShapeSamples ==
    { Element(<<"r", "e", "c", "t">>,
              Attrib(("x" :> Some(<<"1">>)) @@ ("width" :> Some(<<"1", "0", "p", "t">>))), <<>>),
      Element(<<"c", "i", "r", "c", "l", "e">>, Attrib("r" :> Some(<<"2", ".", "5">>)), <<>>),
      Element(<<"e", "l", "l", "i", "p", "s", "e">>, Attrib("rx" :> Some(<<"1", "i", "n">>)), <<>>),
      Element(<<"l", "i", "n", "e">>, Attrib("x2" :> Some(<<"-", "3">>)), <<>>),
      Element(<<"p", "o", "l", "y", "l", "i", "n", "e">>,
              Attrib("points" :> Some(<<Num(0), Cmd(","), Num(0), Cmd(" "), Num(4), Cmd(","), Num(2)>>)), <<>>),
      Element(<<"p", "o", "l", "y", "g", "o", "n">>,
              Attrib("points" :> Some(<<Num(1), Cmd(" "), Num(2), Cmd(" "), Num(3)>>)), <<>>),
      Element(<<"p", "a", "t", "h">>,
              Attrib("d" :> Some(<<Cmd("M"), Num(1), Cmd(","), Num(2), Cmd("h"), Num(4)>>)), <<>>),
      Element(<<"t", "e", "x", "t">>, Attrib("font-size" :> Some(<<"1", "2", "p", "x">>)),
              <<<<" ", "H", "i", " ">>, <<" ">>, <<"y", "o", "u">>>>) }

StyleProperties == {"fill", "stroke", "stroke-width", "opacity"}

\* The texts a style property takes in the model's documents.
StyleTexts(name) ==
    IF name \in {"fill", "stroke"}
    THEN { <<>>, <<"n", "o", "n", "e">>, <<" ", "R", "e", "d", " ">>,
           <<"#", "1", "1", "1", "1", "1", "1">>, <<"#", "2", "2", "2", "2", "2", "2">>,
           <<"#", "A", "B", "C", "D", "E", "F">>, <<"#", "a", "b", "c">>,
           <<"r", "g", "b", "(", "2", "5", "5", ",", " ", "0", ",", "1", "6", ")">>,
           <<"r", "g", "b", "(", "3", "0", "0", ",", "0", ",", "0", ")">>,
           <<"o", "r", "a", "n", "g", "e">> }
    ELSE IF name = "stroke-width"
    THEN { <<>>, <<"2">>, <<"1", ".", "5", "p", "x">>, <<"3", "p", "t">>, <<"w", "i", "d", "e">> }
    ELSE { <<>>, <<"0", ".", "5">>, <<" ", ".", "2", "5">>, <<"5", "0", "%">>, <<"h", "a", "l", "f">> }

\* What comes before the property's declaration in the style block.
StylePrefixes ==
    { <<>>, <<"b", "o", "g", "u", "s", ";">>,
      <<" ", "s", "t", "r", "o", "k", "e", " ", ":", " ", "b", "l", "u", "e", " ", ";">> }

Optional(texts) == {None} \cup {Some(t) : t \in texts}

\* The style block that declares name as text after the prefix, if at all.
StyleBlock(prefix, name, text) ==
    IF text.none
    THEN (IF prefix = <<>> THEN None ELSE Some(prefix))
    ELSE Some(prefix \o Chars(name) \o <<":">> \o text.v)

\* The element with one more attribute, where the value is present.
WithAttrib(element, name, value) ==
    IF value.none THEN element
    ELSE [element EXCEPT !.attrib = (name :> value.v) @@ element.attrib]

\* The children of element k, in document order, parent[j] being the parent of j.
RECURSIVE ChildrenFrom(_, _, _, _)
ChildrenFrom(parent, k, j, n) ==
    IF j > n THEN <<>>
    ELSE (IF parent[j] = k THEN <<j>> ELSE <<>>) \o ChildrenFrom(parent, k, j + 1, n)

Tree(n, parent, kinds) ==
    [k \in 1..n |-> [kinds[k] EXCEPT !.children = ChildrenFrom(parent, k, k + 1, n)]]

StartSvg(tree) ==
    /\ elements = tree
    /\ pending = <<1>>
    /\ shapes = <<>>
    /\ result = NoResult

\* A document tree of up to MaxNodes elements, or a container with one
\* shape that has one style property given as an attribute, in the style
\* block, in both or in neither.
InitSvg ==
    /\ \/ \E n \in 1..MaxNodes :
            \E parent \in [2..n -> 1..n], kinds \in [1..n -> TreeElements] :
               /\ \A k \in 2..n : parent[k] < k
               /\ StartSvg(Tree(n, parent, kinds))
       \/ \E shape \in ShapeSamples, name \in StyleProperties, prefix \in StylePrefixes :
            \E attr \in Optional(StyleTexts(name)), decl \in Optional(StyleTexts(name)) :
               StartSvg(Tree(2, [k \in 2..2 |-> 1],
                             <<SvgRoot,
                               WithAttrib(WithAttrib(shape, name, attr), "style",
                                          StyleBlock(prefix, name, decl))>>))
    /\ IdlePath
    /\ IdleBuild

NextSvg ==
    \/ VisitOther
    \/ VisitShape
    \/ VisitFail
    \/ ReturnDocument

SpecSvg == InitSvg /\ [][NextSvg]_vars

-----------------------------------------------------------------------------
(* build_presentation as a state machine                                   *)

\* Most shapes of a Document handed to the builder.
MaxShapes == 3

Red == <<"#", "f", "f", "0", "0", "0", "0">>
Blue == <<"#", "0", "0", "0", "0", "f", "f">>

\* Style with the two font fields
TextStyleOf(style, font_family, font_size) ==
    [fill_color |-> style.fill_color, stroke_color |-> style.stroke_color,
     stroke_width |-> style.stroke_width, opacity |-> style.opacity,
     font_family |-> font_family, font_size |-> font_size]

\* The shapes of the model's Documents: every variant, painted and not,
\* freeforms of fewer than two points and of more, and a paint that is no
\* hex colour.
BuildShapes ==
    { [shape_type |-> "rect", style |-> Style(Some(Red), Some(Blue), Float(2), Float(1)),
       x |-> Float(1), y |-> Float(2), width |-> Float(10), height |-> 5500,
       rx |-> 0, ry |-> 0],
      [shape_type |-> "rect", style |-> DefaultStyle,
       x |-> 0, y |-> 0, width |-> Float(4), height |-> Float(4), rx |-> Float(1), ry |-> 0],
      [shape_type |-> "rect", style |-> Style(Some(<<"o", "r", "a", "n", "g", "e">>), None, Float(1), Float(1)),
       x |-> 0, y |-> 0, width |-> Float(4), height |-> Float(4), rx |-> 0, ry |-> 0],
      [shape_type |-> "circle", style |-> Style(None, Some(Blue), 1500, Float(1)),
       cx |-> Float(1), cy |-> Float(5), r |-> Float(3)],
      [shape_type |-> "ellipse", style |-> Style(Some(Red), None, Float(1), 500),
       cx |-> Float(10), cy |-> Float(10), rx |-> Float(4), ry |-> Float(2)],
      [shape_type |-> "line", style |-> Style(None, Some(Red), Float(1), Float(1)),
       x1 |-> Float(9), y1 |-> Float(1), x2 |-> Float(2), y2 |-> Float(6)],
      [shape_type |-> "polyline", style |-> Style(None, Some(Blue), Float(1), Float(1)),
       points |-> <<<<Float(1), Float(1)>>>>, closed |-> FALSE],
      [shape_type |-> "polygon", style |-> Style(Some(Blue), Some(Red), Float(1), Float(1)),
       points |-> <<<<0, 0>>, <<Float(4), 0>>, <<Float(4), Float(3)>>>>, closed |-> TRUE],
      [shape_type |-> "path", style |-> Style(Some(Red), Some(Blue), Float(1), Float(1)),
       segments |-> <<[points |-> <<<<Float(7), Float(7)>>>>, closed |-> FALSE],
                      [points |-> <<<<0, 0>>, <<Float(5), Float(5)>>>>, closed |-> TRUE],
                      [points |-> <<<<Float(1), 0>>, <<Float(2), 0>>, <<Float(2), Float(8)>>>>,
                       closed |-> FALSE]>>],
      [shape_type |-> "path", style |-> DefaultStyle, segments |-> <<>>],
      [shape_type |-> "text",
       style |-> TextStyleOf(Style(Some(Red), Some(Blue), Float(1), Float(1)),
                             Some(<<"A", "r", "i", "a", "l">>), SomeFloat(Float(16))),
       text |-> <<"H", "i">>, x |-> Float(3), y |-> Float(4)],
      [shape_type |-> "text", style |-> DefaultStyle,
       text |-> <<>>, x |-> 0, y |-> 0] }

\* The canvas sizes of the model's Documents: absent, zero, given.
CanvasSizes ==
    { <<NoFloat, NoFloat>>, <<SomeFloat(0), SomeFloat(Float(50))>>,
      <<SomeFloat(Float(100)), SomeFloat(Float(50))>> }

InitBuild ==
    /\ \E n \in 0..MaxShapes :
         \E shapes_ \in [1..n -> BuildShapes], size \in CanvasSizes :
            document = Document(size[1], size[2], shapes_)
    /\ index = 0
    /\ slide = <<>>
    /\ prs = [slide_width |-> NoFloat, slide_height |-> NoFloat, saved |-> FALSE]
    /\ bstatus = "start"
    /\ IdlePath
    /\ IdleSvg

NextBuild ==
    \/ BuildStart
    \/ BuildRect
    \/ BuildCircle
    \/ BuildEllipse
    \/ BuildLine
    \/ BuildPolyline
    \/ BuildPath
    \/ BuildText
    \/ BuildSave

SpecBuild == InitBuild /\ [][NextBuild]_vars

-----------------------------------------------------------------------------
(* Claims about the path interpreter (checked under SpecPath)              *)

LastPoint(segs) == segs[Len(segs)].points[Len(segs[Len(segs)].points)]

IsNum(toks, k) == k \in 1..Len(toks) /\ toks[k].c = ""
IsCmd(toks, k, letters) == k \in 1..Len(toks) /\ toks[k].c \in letters

\* The token stream reads  M p0 (L p)* Z  with Z or z last.
IsPolygonForm(toks) ==
    /\ Len(toks) >= 4
    /\ (Len(toks) - 4) % 3 = 0
    /\ IsCmd(toks, 1, {"M"}) /\ IsNum(toks, 2) /\ IsNum(toks, 3)
    /\ IsCmd(toks, Len(toks), {"Z", "z"})
    /\ \A k \in 0..((Len(toks) - 4) \div 3 - 1) :
          IsCmd(toks, 4 + 3 * k, {"L"}) /\ IsNum(toks, 5 + 3 * k) /\ IsNum(toks, 6 + 3 * k)

\* The points p0, p1, ..., pn of a stream of that form, in input order.
PolygonPoints(toks) ==
    [k \in 1..((Len(toks) - 1) \div 3) |-> <<toks[3 * k - 1].n, toks[3 * k].n>>]

\* C1: for path data 'M p0 L p1 ... L pn Z' parse_path returns exactly one
\* segment, closed, whose points are p0, p1, ..., pn in input order.
C1_ClosedPolygon ==
    (pstatus = "done" /\ IsPolygonForm(tokens)) =>
        /\ Len(segments) = 1
        /\ segments[1].closed
        /\ segments[1].points = PolygonPoints(tokens)

\* The loop is at a data token of l, h, v, H or V that has all its operands.
AtOffsetCommand ==
    /\ Branch(PathState) \in {"rel", "H", "h", "V", "v"}
    /\ command # "m"
    /\ Branch(PathState) = "rel" => (HasNext(PathState) /\ ~IsLetter(NextToken(PathState)))

\* The point the claim gives for the command at hand, from (cx, cy) = c.
OffsetPoint(c) ==
    LET a == Token(PathState).n IN
    CASE command = "l" -> <<c[1] + a, c[2] + NextToken(PathState).n>>
      [] command = "h" -> <<c[1] + a, c[2]>>
      [] command = "v" -> <<c[1], c[2] + a>>
      [] command = "H" -> <<a, c[2]>>
      [] command = "V" -> <<c[1], a>>

CursorPlace ==
    IF segments = <<>>
    THEN cursor = <<0, 0>>
    ELSE \/ cursor = LastPoint(segments)
         \/ cursor = start_point /\ segments[Len(segments)].closed

IsCloseThenOffsetForm(toks) ==
    /\ Len(toks) = 10
    /\ IsCmd(toks, 1, {"M"}) /\ IsNum(toks, 2) /\ IsNum(toks, 3)
    /\ IsCmd(toks, 4, {"L"}) /\ IsNum(toks, 5) /\ IsNum(toks, 6)
    /\ IsCmd(toks, 7, {"Z", "z"})
    /\ IsCmd(toks, 8, {"l"}) /\ IsNum(toks, 9) /\ IsNum(toks, 10)

\* C9: in 'M a,b L c,d Z l dx,dy' the command after Z appends
\* (a+dx, b+dy), and the result has exactly one segment.
C9_CloseResetsCursor ==
    (pstatus = "done" /\ IsCloseThenOffsetForm(tokens)) =>
        /\ Len(segments) = 1
        /\ LastPoint(segments) = <<tokens[2].n + tokens[9].n, tokens[3].n + tokens[10].n>>

\* C10: every segment of the list holds at least one point, at every step;
\* a segment synthesized by a coordinate command while no segment existed
\* is the origin followed by the new point.
C10_SegmentsNonEmpty ==
    /\ [](\A k \in 1..Len(segments) : Len(segments[k].points) >= 1)
    /\ [][(segments = <<>> /\ segments' # <<>> /\ command \notin {"M", "m"}) =>
            /\ Len(segments') = 1
            /\ Len(segments'[1].points) = 2
            /\ segments'[1].points[1] = <<0, 0>>
            /\ segments'[1].points[2] = cursor']_vars

\* 'L5,7' has been parsed into the one segment [(0,0),(5,7)].
C10_Witness ==
    /\ pstatus = "done"
    /\ tokens = <<Cmd("L"), Num(5), Num(7)>>
    /\ segments = <<[points |-> <<<<0, 0>>, <<5, 7>>>>, closed |-> FALSE]>>

\* C11: parse_path raises the missing-command error if and only if the
\* token stream begins with a data token: it has raised only on a stream
\* whose first token is a numeric literal, and it has returned only on a
\* stream that is empty or whose first token is a command letter.
C11_MissingCommandIffLeadingData ==
    /\ pstatus = "error" => IsNum(tokens, 1)
    /\ pstatus = "done" => ~IsNum(tokens, 1)

-----------------------------------------------------------------------------
(* Claims about parse_svg (checked under SpecSvg)                          *)

\* The elements of the subtrees rooted at nodes, in depth-first document order.
RECURSIVE DocumentOrder(_, _)
DocumentOrder(tree, nodes) ==
    IF nodes = <<>> THEN <<>>
    ELSE <<Head(nodes)>> \o DocumentOrder(tree, tree[Head(nodes)].children)
                         \o DocumentOrder(tree, Tail(nodes))

IsShapeElement(element) == InShapeParsers(LocalTag(element))

\* The shape elements among nodes, in the order of nodes.
RECURSIVE ShapeElementsOf(_, _)
ShapeElementsOf(tree, nodes) ==
    IF nodes = <<>> THEN <<>>
    ELSE (IF IsShapeElement(tree[Head(nodes)]) THEN <<Head(nodes)>> ELSE <<>>)
             \o ShapeElementsOf(tree, Tail(nodes))

\* The discriminator of a shape tag.
Discriminator(element) == CHOOSE name \in ShapeTags : TagChars(name) = LocalTag(element)

\* The shape sequence is one shape for each of the elements es, in their
\* order, each the extraction of its element with the discriminator of its tag.
ShapesAre(shapes_, es) ==
    /\ Len(shapes_) = Len(es)
    /\ \A k \in 1..Len(es) :
          /\ shapes_[k].shape_type = Discriminator(elements[es[k]])
          /\ shapes_[k] = ShapeParser(LocalTag(elements[es[k]]), elements[es[k]]).value

\* C3 as stated: the shapes of the Document returned are the shape elements
\* among the descendants of the root, in depth-first document order.
C3_DescendantsOnly ==
    result.kind = "document" =>
        ShapesAre(result.shapes,
                  ShapeElementsOf(elements, DocumentOrder(elements, elements[1].children)))

\* C3 (amended): the shapes of the Document returned are the shape elements
\* among the root and all its descendants, in depth-first document order:
\* one shape for each, none dropped, duplicated or reordered, each with the
\* discriminator of its tag.
C3_RootAndDescendants ==
    result.kind = "document" =>
        ShapesAre(result.shapes, ShapeElementsOf(elements, DocumentOrder(elements, <<1>>)))

\* A Document of three shapes has been returned for a tree whose root is a
\* container and whose second element, a shape, has a shape child and is
\* followed by a sibling shape.
C3_Witness ==
    /\ result.kind = "document"
    /\ Len(elements) = 4
    /\ ~IsShapeElement(elements[1])
    /\ elements[1].children = <<2, 4>>
    /\ elements[2].children = <<3>>
    /\ Len(result.shapes) = 3
    /\ result.shapes[1].shape_type # result.shapes[2].shape_type
    /\ result.shapes[2].shape_type # result.shapes[3].shape_type

\* The extractor of a shape element fails.
Fails(element) ==
    IsShapeElement(element) /\ ShapeParser(LocalTag(element), element).raised

\* C4: when the extractor of a shape element fails parse_svg raises one
\* error naming the tag of that element, and returns no Document: no
\* Document is ever returned for a tree that holds a failing shape element,
\* and the error carries no shape list.
C4_FailureAbortsParse ==
    /\ [](result.kind = "document" => \A k \in 1..Len(elements) : ~Fails(elements[k]))
    /\ [](result.kind = "error" =>
            /\ result.shapes = <<>>
            /\ \E k \in 1..Len(elements) :
                  Fails(elements[k]) /\ result.tag = LocalTag(elements[k]))
    /\ [][(Looping /\ Fails(elements[Head(pending)])) =>
            /\ result'.kind = "error"
            /\ result'.tag = LocalTag(elements[Head(pending)])]_vars

\* parse_svg has raised at a failing element that has a valid shape before
\* it and a valid shape after it.
C4_Witness ==
    /\ result.kind = "error"
    /\ Len(shapes) >= 1
    /\ Len(pending) >= 2
    /\ \E k \in 2..Len(pending) :
          IsShapeElement(elements[pending[k]]) /\ ~Fails(elements[pending[k]])

\* C5: value normalization and style resolution never fail; parse_svg
\* fails only through the path data of a path element.
C5_OnlyPathDataFails ==
    result.kind = "error" =>
        /\ result.tag = TagChars("path")
        /\ result.msg = "Path data missing command"

\* The text the element gives a style property: its attribute where
\* present, else the declaration of its style block, else none.
Declared(element, name) ==
    IF name \in DOMAIN element.attrib THEN Some(element.attrib[name])
    ELSE IF Chars(name) \in DOMAIN MergeStyle(element)
    THEN Some(MergeStyle(element)[Chars(name)])
    ELSE None

\* The Style the precedence rule gives an element.
StyleByPrecedence(element) ==
    Style(IF Declared(element, "fill").none THEN None
          ELSE ParseColor(Declared(element, "fill")),
          IF Declared(element, "stroke").none THEN None
          ELSE ParseColor(Declared(element, "stroke")),
          IF Declared(element, "stroke-width").none THEN Float(1)
          ELSE ParseFloat(Declared(element, "stroke-width"), Float(1)),
          IF Declared(element, "opacity").none THEN Float(1)
          ELSE PyFloat(Declared(element, "opacity").v).v)

\* C6: the Style of every shape extracted takes each of fill, stroke,
\* stroke-width and opacity from the element's attribute where present,
\* else from the style block, else from the base style (no paint, 1.0, 1.0).
C6_AttributeThenBlockThenBase ==
    [][Len(shapes') > Len(shapes) =>
          /\ shapes'[Len(shapes')].style.fill_color =
                 StyleByPrecedence(elements[Head(pending)]).fill_color
          /\ shapes'[Len(shapes')].style.stroke_color =
                 StyleByPrecedence(elements[Head(pending)]).stroke_color
          /\ shapes'[Len(shapes')].style.stroke_width =
                 StyleByPrecedence(elements[Head(pending)]).stroke_width
          /\ shapes'[Len(shapes')].style.opacity =
                 StyleByPrecedence(elements[Head(pending)]).opacity]_vars

\* A shape with fill="#111111" and style block fill:#222222 has been
\* extracted with fill #111111.
C6_Witness ==
    /\ Len(elements) = 2
    /\ Len(shapes) = 1
    /\ "fill" \in DOMAIN elements[2].attrib
    /\ "style" \in DOMAIN elements[2].attrib
    /\ elements[2].attrib["fill"] = <<"#", "1", "1", "1", "1", "1", "1">>
    /\ elements[2].attrib["style"] = Chars("fill") \o <<":", "#", "2", "2", "2", "2", "2", "2">>
    /\ shapes[1].style.fill_color = Some(<<"#", "1", "1", "1", "1", "1", "1">>)

\* Absent, or '#' followed by six lowercase hexadecimal digits.
IsCanonical(color) ==
    \/ color.none
    \/ /\ Len(color.v) = 7
       /\ color.v[1] = "#"
       /\ \A k \in 2..7 : color.v[k] \in Range(HexDigits)

\* C7: every shape of a Document returned has a fill color and a stroke
\* color that are each absent or canonical.
C7_CanonicalColors ==
    result.kind = "document" =>
        \A k \in 1..Len(result.shapes) :
            /\ IsCanonical(result.shapes[k].style.fill_color)
            /\ IsCanonical(result.shapes[k].style.stroke_color)

-----------------------------------------------------------------------------
(* Claims about build_presentation (checked under SpecBuild)               *)

\* What the claim puts on the slide for the Document shape k: the kind of
\* slide shape, once for each shape to emit.
Emitted(shape, k) ==
    IF shape.shape_type \in {"rect", "circle", "ellipse", "line"}
    THEN <<[src |-> k, kind |-> "autoshape"]>>
    ELSE IF shape.shape_type = "text" THEN <<[src |-> k, kind |-> "textbox"]>>
    ELSE IF shape.shape_type \in {"polyline", "polygon"}
    THEN (IF Len(shape.points) >= 2 THEN <<[src |-> k, kind |-> "freeform"]>> ELSE <<>>)
    ELSE [j \in 1..Cardinality({s \in 1..Len(shape.segments) :
                                   Len(shape.segments[s].points) >= 2})
             |-> [src |-> k, kind |-> "freeform"]]

RECURSIVE EmittedFrom(_, _)
EmittedFrom(shapes_, k) ==
    IF k > Len(shapes_) THEN <<>>
    ELSE Emitted(shapes_[k], k) \o EmittedFrom(shapes_, k + 1)

\* The colour a slide shape has for a Style colour.
SlideColor(color) == RGBColorFromString(Upper(StripHash(color.v))).v

\* The slide shape carries the fill color and the stroke color of the
\* Style; the colour of a text box's run counts as its fill.
CarriesColors(emitted, style) ==
    /\ IF Truthy(style.fill_color)
       THEN \/ emitted.fill = Solid(SlideColor(style.fill_color), 0)
            \/ emitted.kind = "textbox" /\ emitted.font_color = SlideColor(style.fill_color)
       ELSE emitted.fill.kind # "solid"
    /\ IF Truthy(style.stroke_color)
       THEN emitted.line.kind = "solid" /\ emitted.line.rgb = SlideColor(style.stroke_color)
       ELSE emitted.line.kind # "solid"

\* C8: the slide saved holds, in Document order, one shape for each Rect,
\* Circle, Ellipse, Line and Text, one freeform for each Polyline/Polygon
\* and each Path segment of at least two points, nothing for those of
\* fewer, and every shape carries the fill and stroke color of its source
\* shape's Style.
C8_SlideMatchesDocument ==
    bstatus = "saved" =>
        /\ Len(slide) = Len(EmittedFrom(document.shapes, 1))
        /\ \A k \in 1..Len(slide) :
              /\ slide[k].kind = EmittedFrom(document.shapes, 1)[k].kind
              /\ CarriesColors(slide[k],
                     document.shapes[EmittedFrom(document.shapes, 1)[k].src].style)

====
